---- MODULE Spec2Model ----
(***************************************************************************)
(* Model of app.py: the three pipeline stages (get_youtube_transcript,     *)
(* generate_mind_map_markdown, create_markmap_html) and the Streamlit      *)
(* handler main.                                                           *)
(*                                                                         *)
(* A Python str is a sequence of characters; a character is a one-letter   *)
(* TLA+ string.  Characters a TLA+ string cannot hold are written by code  *)
(* point: "U+0060" is the backtick, "U+00C9" and "U+00E9" are E acute in   *)
(* upper and lower case.  A fixed piece of text of the program (an error  *)
(* message, a literal segment of a template) is one element holding the    *)
(* whole text.                                                             *)
(* Python's None is the one-element sequence <<"None">>.                   *)
(***************************************************************************)
EXTENDS Integers, Sequences, FiniteSets, TLC

VARIABLES
    pc,             \* position of main: "idle", "step1", "step2", "step3", "done", "crashed"
    api_key,        \* value of the sidebar text input
    video_topic,    \* value of the topic text input
    youtube_url,    \* value of the URL text input
    transcript,     \* local of main
    markdown_output,\* local of main
    html_content,   \* local of main
    safe_filename,  \* local of main
    error,          \* local of main
    ui,             \* what the run has displayed, in order
    calls,          \* invocations of the external services in this run, in order
    stages,         \* stage calls of this run with what they returned, in order
    uncaught,       \* name of the exception that left main, or "None"
    fn,             \* function under application: which pure function is applied
    arg,            \* its argument
    svc,            \* outcome the external service will produce
    res,            \* its result
    phase           \* "input", "applied", "reapplied"

vars == <<pc, api_key, video_topic, youtube_url, transcript, markdown_output,
          html_content, safe_filename, error, ui, calls, stages, uncaught,
          fn, arg, svc, res, phase>>

pipelineVars == <<pc, api_key, video_topic, youtube_url, transcript,
                  markdown_output, html_content, safe_filename, error, ui,
                  calls, stages, uncaught>>

unitVars == <<fn, arg, svc, res, phase>>

(***************************************************************************)
(* Bounds of the model.                                                    *)
(***************************************************************************)
MaxLen == 3
MaxFrags == 3

(***************************************************************************)
(* Characters and Python str primitives.                                   *)
(***************************************************************************)
None == <<"None">>

Whitespace == {" ", "\n", "\t", "\r"}

LowerLetters == <<"a","b","c","d","e","f","g","h","i","j","k","l","m",
                  "n","o","p","q","r","s","t","u","v","w","x","y","z">>

UpperLetters == <<"A","B","C","D","E","F","G","H","I","J","K","L","M",
                  "N","O","P","Q","R","S","T","U","V","W","X","Y","Z">>

Digits == {"0","1","2","3","4","5","6","7","8","9"}

Range(f) == {f[i] : i \in DOMAIN f}

AsciiLower == Range(LowerLetters)

AsciiUpper == Range(UpperLetters)

\* letters outside ASCII: E acute, upper and lower case
NonAsciiUpper == {"U+00C9"}

NonAsciiLower == {"U+00E9"}

NonAscii == NonAsciiUpper \cup NonAsciiLower

Strs(A, n) == UNION {[1..k -> A] : k \in 0..n}

Min(S) == CHOOSE x \in S : \A y \in S : x <= y

RECURSIVE LStrip(_)
LStrip(s) ==
    IF Len(s) = 0 THEN s
    ELSE IF Head(s) \in Whitespace THEN LStrip(Tail(s)) ELSE s

RECURSIVE RStrip(_)
RStrip(s) ==
    IF Len(s) = 0 THEN s
    ELSE IF s[Len(s)] \in Whitespace THEN RStrip(SubSeq(s, 1, Len(s) - 1)) ELSE s

\* str.strip()
Strip(s) == RStrip(LStrip(s))

\* str.startswith(p)
StartsWith(s, p) == Len(s) >= Len(p) /\ SubSeq(s, 1, Len(p)) = p

\* str.endswith(p)
EndsWith(s, p) == Len(s) >= Len(p) /\ SubSeq(s, Len(s) - Len(p) + 1, Len(s)) = p

\* s[n:] for n >= 0
SliceFrom(s, n) == SubSeq(s, n + 1, Len(s))

\* s[:-n] for n > 0
SliceDropLast(s, n) == SubSeq(s, 1, Len(s) - n)

\* "sub in s"
Contains(s, sub) ==
    \E i \in 1..(Len(s) - Len(sub) + 1) : SubSeq(s, i, i + Len(sub) - 1) = sub

\* Python truthiness of a str or None
Truthy(v) == v # None /\ Len(v) > 0

(***************************************************************************)
(* generate_mind_map_markdown: clean-up of the response text.              *)
(***************************************************************************)
Backtick == "U+0060"

FenceOpen == <<Backtick, Backtick, Backtick, "m","a","r","k","d","o","w","n">>

FenceClose == <<Backtick, Backtick, Backtick>>

FenceOpenSlice == 10

FenceCloseSlice == 3

CleanMarkdown(text) ==
    LET m1 == Strip(text)
        m2 == IF StartsWith(m1, FenceOpen) THEN SliceFrom(m1, FenceOpenSlice) ELSE m1
        m3 == IF EndsWith(m2, FenceClose) THEN SliceDropLast(m2, FenceCloseSlice) ELSE m2
    IN  Strip(m3)

(***************************************************************************)
(* get_youtube_transcript.                                                 *)
(***************************************************************************)
\* the characters [^&#] does not match
IdStop == {"&", "#"}

LookBehindV == <<"v", "=">>

LookBehindBe == <<"b", "e", "/">>

\* (?<=lit) at position p: the characters right before p are lit
LookBehind(s, p, lit) ==
    p - Len(lit) >= 1 /\ SubSeq(s, p - Len(lit), p - 1) = lit

\* [^&#]+ from position p, greedy: the last position of the run
RECURSIVE RunEnd(_, _)
RunEnd(s, p) ==
    IF p + 1 <= Len(s) /\ s[p + 1] \notin IdStop THEN RunEnd(s, p + 1) ELSE p

\* positions after a look-behind, whatever character stands there
MatchStarts_AnyChar(s) ==
    {p \in 1..Len(s) : LookBehind(s, p, LookBehindV) \/ LookBehind(s, p, LookBehindBe)}

\* positions where (?<=v=)[^&#]+|(?<=be/)[^&#]+ matches
MatchStarts(s) ==
    {p \in 1..Len(s) :
        /\ s[p] \notin IdStop
        /\ (LookBehind(s, p, LookBehindV) \/ LookBehind(s, p, LookBehindBe))}

\* re.search(...): the leftmost match, group(0) of it, or None
ReSearchVideoId(youtube_url_) ==
    LET starts == MatchStarts(youtube_url_)
    IN  IF starts = {} THEN None
        ELSE LET p == Min(starts) IN SubSeq(youtube_url_, p, RunEnd(youtube_url_, p))

\* "".join(list)
RECURSIVE JoinSpace_NoSeparator(_)
JoinSpace_NoSeparator(list) ==
    IF Len(list) = 0 THEN <<>> ELSE list[1] \o JoinSpace_NoSeparator(Tail(list))

\* " ".join(list)
RECURSIVE JoinSpace(_)
JoinSpace(list) ==
    IF Len(list) = 0 THEN <<>>
    ELSE IF Len(list) = 1 THEN list[1]
    ELSE list[1] \o <<" ">> \o JoinSpace(Tail(list))

Texts(transcript_list) == [i \in 1..Len(transcript_list) |-> transcript_list[i].text]

MsgInvalidUrl ==
    <<"Error: Could not extract video ID from the URL. Please use a valid YouTube video link.">>

MsgFetchFailed(e) ==
    <<"Error: Could not fetch transcript. The video might not have transcripts enabled, or the URL is incorrect. (Details: ",
      e, ")">>

\* outcome is what YouTubeTranscriptApi.get_transcript does when it is called:
\* [raises |-> FALSE, value |-> list of fragments] or [raises |-> TRUE, exc |-> e]
get_youtube_transcript(youtube_url_, outcome) ==
    LET video_id == ReSearchVideoId(youtube_url_)
        call == <<[svc |-> "get_transcript", arg |-> video_id]>>
    IN  IF video_id = None
        THEN [value |-> None, error |-> MsgInvalidUrl, calls |-> <<>>]
        ELSE IF outcome.raises
        THEN [value |-> None, error |-> MsgFetchFailed(outcome.exc), calls |-> call]
        ELSE [value |-> JoinSpace(Texts(outcome.value)), error |-> None, calls |-> call]

(***************************************************************************)
(* generate_mind_map_markdown.                                             *)
(***************************************************************************)
\* the f-string of the prompt: two replacement fields, topic and transcript
Prompt(topic, transcript_) ==
    <<"prompt text, lines 40-64, up to the topic field">> \o topic
        \o <<"prompt text, line 65, up to the transcript field">> \o transcript_
        \o <<"\n">>

MsgGenerationFailed(e) ==
    <<"Error: Failed to generate mind map from the LLM. Please check your API key and try again. (Details: ",
      e, ")">>

\* outcome is what the generative service does when it is called:
\* [raises |-> FALSE, value |-> response text] or [raises |-> TRUE, exc |-> e]
generate_mind_map_markdown(api_key_, topic, transcript_, outcome) ==
    LET call == <<[svc |-> "generate_content", arg |-> Prompt(topic, transcript_)]>>
    IN  IF outcome.raises
        THEN [value |-> None, error |-> MsgGenerationFailed(outcome.exc), calls |-> call]
        ELSE [value |-> CleanMarkdown(outcome.value), error |-> None, calls |-> call]

(***************************************************************************)
(* create_markmap_html.                                                    *)
(***************************************************************************)
NonAsciiHex ==
    [c \in NonAscii |-> IF c = "U+00C9" THEN <<"0","0","c","9">> ELSE <<"0","0","e","9">>]

\* the escape json.dumps writes for one character (ensure_ascii is on)
JsonEscapeChar(c) ==
    CASE c = "\"" -> <<"\\", "\"">>
      [] c = "\\" -> <<"\\", "\\">>
      [] c = "\n" -> <<"\\", "n">>
      [] c = "\r" -> <<"\\", "r">>
      [] c = "\t" -> <<"\\", "t">>
      [] c \in NonAscii -> <<"\\", "u">> \o NonAsciiHex[c]
      [] OTHER -> <<c>>

RECURSIVE JsonEscape(_)
JsonEscape(s) ==
    IF Len(s) = 0 THEN <<>> ELSE JsonEscapeChar(Head(s)) \o JsonEscape(Tail(s))

\* json.dumps(str)
JsonDumps(s) == <<"\"">> \o JsonEscape(s) \o <<"\"">>

\* names bound at module level of app.py
ModuleGlobals ==
    {"st", "genai", "YouTubeTranscriptApi", "re", "json", "get_youtube_transcript",
     "generate_mind_map_markdown", "create_markmap_html", "main"}

Lit(text) == [kind |-> "lit", text |-> text, names |-> <<>>]

Field(names) == [kind |-> "field", text |-> "", names |-> names]

\* the f-string html_template: literal text and replacement fields, in order.
\* Doubled braces are literal text; a single brace opens a replacement field.
HtmlTemplate ==
    << Lit("\n<!DOCTYPE html>\n<html>\n<head>\n<meta charset=\"UTF-8\">\n<meta name=\"viewport\" content=\"width=device-width, initial-scale=1.0\">\n<title>Markmap: "),
       Field(<<"topic">>),
       Lit("</title>\n<style>\n* { margin: 0; padding: 0; }\n#mindmap { height: 100vh; width: 100vw; }\n</style>\n<script src=\"https://cdn.jsdelivr.net/npm/d3@7\"></script>\n<script src=\"https://cdn.jsdelivr.net/npm/markmap-lib\"></script>\n<script src=\"https://cdn.jsdelivr.net/npm/markmap-view\"></script>\n</head>\n<body>\n<svg id=\"mindmap\"></svg>\n<script>\n((markmap) => {\n  const "),
       Field(<<"Transformer", "Markmap", "loadCSS", "loadJS">>),
       Lit(" = markmap;\n  const transformer = new Transformer();\n  const "),
       Field(<<"root", "features">>),
       Lit(" = transformer.transform("),
       Field(<<"escaped_markdown">>),
       Lit(");\n  const "),
       Field(<<"styles", "scripts">>),
       Lit(" = transformer.getUsedAssets(features);\n  if (styles) loadCSS(styles);\n  if (scripts) loadJS(scripts, { getMarkmap: () => markmap });\n  Markmap.create('#mindmap', undefined, root);\n})({...window.markmap});\n</script>\n</body>\n</html>\n") >>

\* names of a replacement field that are bound neither locally nor globally
Unbound(names, locals) ==
    {i \in 1..Len(names) : names[i] \notin (DOMAIN locals \cup ModuleGlobals)}

\* evaluation of an f-string, left to right; a name that is not bound raises
RECURSIVE FormatParts(_, _, _)
FormatParts(parts, locals, acc) ==
    IF Len(parts) = 0 THEN [raised |-> FALSE, exc |-> <<>>, value |-> acc]
    ELSE LET h == Head(parts) IN
         IF h.kind = "lit" THEN FormatParts(Tail(parts), locals, acc \o <<h.text>>)
         ELSE IF Unbound(h.names, locals) # {}
         THEN [raised |-> TRUE,
               exc |-> <<"NameError", h.names[Min(Unbound(h.names, locals))]>>,
               value |-> None]
         ELSE IF Len(h.names) = 1 /\ h.names[1] \in DOMAIN locals
         THEN FormatParts(Tail(parts), locals, acc \o locals[h.names[1]])
         ELSE FormatParts(Tail(parts), locals, acc \o <<"str of the field's value">>)

create_markmap_html(topic, markdown_content) ==
    LET escaped_markdown == JsonDumps(markdown_content)
        locals == [n \in {"topic", "markdown_content", "escaped_markdown"} |->
                     CASE n = "topic" -> topic
                       [] n = "markdown_content" -> markdown_content
                       [] n = "escaped_markdown" -> escaped_markdown]
    IN  FormatParts(HtmlTemplate, locals, <<>>)

(***************************************************************************)
(* main: the download file name.                                           *)
(***************************************************************************)
\* \w of a str pattern: letters and digits of any script, and the underscore
IsWordChar(c) ==
    c \in AsciiLower \cup AsciiUpper \cup Digits \cup NonAscii \cup {"_"}

\* the class [\W_]
InSubClass(c) == ~IsWordChar(c) \/ c = "_"

RECURSIVE SkipSubClass(_)
SkipSubClass(s) ==
    IF Len(s) > 0 /\ InSubClass(Head(s)) THEN SkipSubClass(Tail(s)) ELSE s

\* a substitution that replaces every character of the class on its own
RECURSIVE ReSubNonWord_EachChar(_)
ReSubNonWord_EachChar(s) ==
    IF Len(s) = 0 THEN <<>>
    ELSE IF InSubClass(Head(s)) THEN <<"_">> \o ReSubNonWord_EachChar(Tail(s))
    ELSE <<Head(s)>> \o ReSubNonWord_EachChar(Tail(s))

\* re.sub(r'[\W_]+', '_', s)
RECURSIVE ReSubNonWord(_)
ReSubNonWord(s) ==
    IF Len(s) = 0 THEN <<>>
    ELSE IF InSubClass(Head(s)) THEN <<"_">> \o ReSubNonWord(SkipSubClass(s))
    ELSE <<Head(s)>> \o ReSubNonWord(Tail(s))

LowerChar(c) ==
    IF c \in AsciiUpper THEN LowerLetters[CHOOSE i \in 1..26 : UpperLetters[i] = c]
    ELSE IF c = "U+00C9" THEN "U+00E9"
    ELSE c

\* str.lower()
Lower(s) == [i \in 1..Len(s) |-> LowerChar(s[i])]

HtmlExt == <<".", "h", "t", "m", "l">>

SafeFilename(topic) == Lower(ReSubNonWord(topic)) \o HtmlExt

(***************************************************************************)
(* main: the handler of the page.  The messages are those of st.error and  *)
(* st.success without their leading emoji.                                 *)
(***************************************************************************)
MsgMissingKey == <<"Please enter your Google AI API Key in the sidebar.">>

MsgMissingTopic == <<"Please provide a video topic.">>

MsgMissingUrl == <<"Please provide a YouTube URL.">>

Shown(kind, body) == [kind |-> kind, body |-> body]

StageReturn(stage, r) ==
    [stage |-> stage, value |-> r.value, error |-> r.error, raised |-> FALSE]

StageRaise(stage) ==
    [stage |-> stage, value |-> None, error |-> None, raised |-> TRUE]

\* inputs of the page and outcomes of the two services
Str_TestTopic == <<"T","e","s","t"," ","T","o","p","i","c">>

Str_Preamble == <<"P","r","e","a","m","b","l","e",":"," ","P","a","r","t"," ","I">>

Str_ExampleBody ==
    <<"#"," ","T","e","s","t"," ","T","o","p","i","c","\n","-"," ","A","\n"," "," ","-"," ","B">>

Str_WatchPrefix ==
    <<"h","t","t","p","s",":","/","/","w","w","w",".","y","o","u","t","u","b","e",".","c","o","m">>

Str_ShortPrefix == <<"h","t","t","p","s",":","/","/","y","o","u","t","u",".","b","e">>

Str_Watch == <<"/","w","a","t","c","h","?","v","=">>

Str_Be == <<"/","b","e","/">>

Str_Id == <<"a","b","c","1","2","3">>

Str_Hello == <<"H","e","l","l","o">>

Str_World == <<"W","o","r","l","d">>

Returns(v) == [raises |-> FALSE, exc |-> "", value |-> v]

Raises(e) == [raises |-> TRUE, exc |-> e, value |-> <<>>]

Frag(text) == [text |-> text]

ApiKeys == {<<>>, <<"k">>}

PipelineTopics == {<<>>, Str_TestTopic, Str_Preamble}

PipelineUrls ==
    {<<>>, Str_WatchPrefix \o Str_Watch \o Str_Id, Str_ShortPrefix \o <<"/">> \o Str_Id,
     Str_WatchPrefix \o Str_Watch \o Str_Id \o <<"&","t","=","1","0">>,
     Str_WatchPrefix \o <<"/","c","h","a","n","n","e","l">>}

TranscriptOutcomes ==
    {Raises("TranscriptsDisabled"), Returns(<<>>),
     Returns(<<Frag(Str_Hello), Frag(Str_World)>>)}

GenOutcomes ==
    {Raises("PermissionDenied"), Returns(<<>>), Returns(<<"#", " ", "T">>),
     Returns(FenceOpen \o <<"\n">> \o Str_ExampleBody \o <<"\n">> \o FenceClose)}

NoOutcome == Returns(<<>>)

\* the state of a run that has not started: the locals of main are unset
RunCleared ==
    /\ transcript' = None
    /\ markdown_output' = None
    /\ html_content' = None
    /\ safe_filename' = None
    /\ error' = None
    /\ ui' = <<>>
    /\ calls' = <<>>
    /\ stages' = <<>>
    /\ uncaught' = None

Resting == pc \in {"idle", "done", "crashed"}

\* the user edits a text input: the script runs again with the button not pressed
EnterApiKey ==
    /\ Resting
    /\ \E k \in ApiKeys : k # api_key /\ api_key' = k
    /\ pc' = "idle"
    /\ RunCleared
    /\ UNCHANGED <<video_topic, youtube_url>>
    /\ UNCHANGED unitVars

EnterTopic ==
    /\ Resting
    /\ \E t \in PipelineTopics : t # video_topic /\ video_topic' = t
    /\ pc' = "idle"
    /\ RunCleared
    /\ UNCHANGED <<api_key, youtube_url>>
    /\ UNCHANGED unitVars

EnterUrl ==
    /\ Resting
    /\ \E u \in PipelineUrls : u # youtube_url /\ youtube_url' = u
    /\ pc' = "idle"
    /\ RunCleared
    /\ UNCHANGED <<api_key, video_topic>>
    /\ UNCHANGED unitVars

\* the button is pressed and the URL is not validated
ClickGenerate_UrlUnchecked ==
    /\ Resting
    /\ transcript' = None
    /\ markdown_output' = None
    /\ html_content' = None
    /\ safe_filename' = None
    /\ error' = None
    /\ calls' = <<>>
    /\ stages' = <<>>
    /\ uncaught' = None
    /\ IF ~Truthy(api_key)
       THEN ui' = <<Shown("error", MsgMissingKey)>> /\ pc' = "done"
       ELSE IF ~Truthy(video_topic)
       THEN ui' = <<Shown("error", MsgMissingTopic)>> /\ pc' = "done"
       ELSE ui' = <<>> /\ pc' = "step1"
    /\ UNCHANGED <<api_key, video_topic, youtube_url>>
    /\ UNCHANGED unitVars

\* the button is pressed: validation of the three inputs
ClickGenerate ==
    /\ Resting
    /\ transcript' = None
    /\ markdown_output' = None
    /\ html_content' = None
    /\ safe_filename' = None
    /\ error' = None
    /\ calls' = <<>>
    /\ stages' = <<>>
    /\ uncaught' = None
    /\ IF ~Truthy(api_key)
       THEN ui' = <<Shown("error", MsgMissingKey)>> /\ pc' = "done"
       ELSE IF ~Truthy(video_topic)
       THEN ui' = <<Shown("error", MsgMissingTopic)>> /\ pc' = "done"
       ELSE IF ~Truthy(youtube_url)
       THEN ui' = <<Shown("error", MsgMissingUrl)>> /\ pc' = "done"
       ELSE ui' = <<>> /\ pc' = "step1"
    /\ UNCHANGED <<api_key, video_topic, youtube_url>>
    /\ UNCHANGED unitVars

\* Step 1 without the return after the error is shown
Step1_NoReturn ==
    /\ pc = "step1"
    /\ \E o \in TranscriptOutcomes :
         LET r == get_youtube_transcript(youtube_url, o) IN
         /\ transcript' = r.value
         /\ error' = r.error
         /\ calls' = calls \o r.calls
         /\ stages' = Append(stages, StageReturn("get_youtube_transcript", r))
         /\ IF Truthy(r.error)
            THEN ui' = Append(ui, Shown("error", r.error)) /\ pc' = "step2"
            ELSE /\ ui' = Append(ui, Shown("success", <<"Transcript extracted successfully!">>))
                 /\ pc' = "step2"
    /\ UNCHANGED <<api_key, video_topic, youtube_url, markdown_output, html_content,
                   safe_filename, uncaught>>
    /\ UNCHANGED unitVars

\* Step 1: Extract Transcript
Step1 ==
    /\ pc = "step1"
    /\ \E o \in TranscriptOutcomes :
         LET r == get_youtube_transcript(youtube_url, o) IN
         /\ transcript' = r.value
         /\ error' = r.error
         /\ calls' = calls \o r.calls
         /\ stages' = Append(stages, StageReturn("get_youtube_transcript", r))
         /\ IF Truthy(r.error)
            THEN ui' = Append(ui, Shown("error", r.error)) /\ pc' = "done"
            ELSE /\ ui' = Append(ui, Shown("success", <<"Transcript extracted successfully!">>))
                 /\ pc' = "step2"
    /\ UNCHANGED <<api_key, video_topic, youtube_url, markdown_output, html_content,
                   safe_filename, uncaught>>
    /\ UNCHANGED unitVars

\* Step 2: Analyze and Generate Markdown
Step2 ==
    /\ pc = "step2"
    /\ \E o \in GenOutcomes :
         LET r == generate_mind_map_markdown(api_key, video_topic, transcript, o) IN
         /\ markdown_output' = r.value
         /\ error' = r.error
         /\ calls' = calls \o r.calls
         /\ stages' = Append(stages, StageReturn("generate_mind_map_markdown", r))
         /\ IF Truthy(r.error)
            THEN ui' = Append(ui, Shown("error", r.error)) /\ pc' = "done"
            ELSE /\ ui' = Append(ui, Shown("success", <<"Mind map generated successfully!">>))
                 /\ pc' = "step3"
    /\ UNCHANGED <<api_key, video_topic, youtube_url, transcript, html_content,
                   safe_filename, uncaught>>
    /\ UNCHANGED unitVars

\* Step 3: Create HTML and provide download
Step3 ==
    /\ pc = "step3"
    /\ LET r == create_markmap_html(video_topic, markdown_output) IN
       IF r.raised
       THEN /\ uncaught' = r.exc
            /\ stages' = Append(stages, StageRaise("create_markmap_html"))
            /\ pc' = "crashed"
            /\ UNCHANGED <<html_content, safe_filename, ui>>
       ELSE /\ html_content' = r.value
            /\ safe_filename' = SafeFilename(video_topic)
            /\ stages' = Append(stages, [stage |-> "create_markmap_html", value |-> r.value,
                                         error |-> None, raised |-> FALSE])
            /\ ui' = ui \o << Shown("success", <<"HTML file ready for download!">>),
                              Shown("header", <<"2. Review and Download">>),
                              Shown("subheader", <<"Generated Markmap Markdown">>),
                              Shown("code", markdown_output),
                              Shown("download_button", SafeFilename(video_topic)) >>
            /\ pc' = "done"
            /\ UNCHANGED uncaught
    /\ UNCHANGED <<api_key, video_topic, youtube_url, transcript, markdown_output,
                   error, calls>>
    /\ UNCHANGED unitVars

PipelineIdle ==
    /\ pc = "idle"
    /\ api_key = <<>>
    /\ video_topic = <<>>
    /\ youtube_url = <<>>
    /\ transcript = None
    /\ markdown_output = None
    /\ html_content = None
    /\ safe_filename = None
    /\ error = None
    /\ ui = <<>>
    /\ calls = <<>>
    /\ stages = <<>>
    /\ uncaught = None

Init ==
    /\ PipelineIdle
    /\ fn = "none"
    /\ arg = <<>>
    /\ svc = NoOutcome
    /\ res = <<>>
    /\ phase = "input"

Next ==
    \/ EnterApiKey
    \/ EnterTopic
    \/ EnterUrl
    \/ ClickGenerate
    \/ Step1
    \/ Step2
    \/ Step3

Spec == Init /\ [][Next]_vars

(***************************************************************************)
(* The functions of the program applied to inputs drawn from bounded sets. *)
(***************************************************************************)
CleanAlphabet == {Backtick, " ", "\n", "a"}

Bodies == Strs(CleanAlphabet, MaxLen) \cup {Str_ExampleBody}

Margins == {<<>>, <<" ">>, <<"\n">>}

Openers == {<<>>, FenceOpen, FenceOpen \o <<"\n">>}

Closers == {<<>>, FenceClose, <<"\n">> \o FenceClose}

Responses ==
    {w1 \o o \o b \o c \o w2 :
        w1 \in {<<>>, <<" ">>}, o \in Openers, b \in Bodies, c \in Closers, w2 \in {<<>>, <<"\n">>}}

TopicAlphabet == {"a", "B", "1", "_", " ", ":", "U+00C9"}

Topics == Strs(TopicAlphabet, MaxLen) \cup {Str_TestTopic, Str_Preamble}

UrlAlphabet == {"v", "=", "b", "e", "/", "&", "#", "1"}

Prefixes == Strs(UrlAlphabet, MaxLen - 1) \cup {Str_WatchPrefix, Str_ShortPrefix}

Ids == {<<"a">>, <<"e", "1">>, Str_Id}

WatchUrls == {p \o Str_Watch \o id : p \in Prefixes, id \in Ids}

BeUrls == {p \o Str_Be \o id : p \in Prefixes, id \in Ids}

Urls == Strs(UrlAlphabet, MaxLen) \cup WatchUrls \cup BeUrls

FragTexts == {<<>>, <<"a">>, <<"b", " ", "c">>, Str_Hello, Str_World}

FragLists == Strs({Frag(t) : t \in FragTexts}, MaxFrags)

MarkdownAlphabet == {"\"", "\\", "\n", "<", "a", "U+00E9"}

Str_ScriptEnd == <<"<", "/", "s", "c", "r", "i", "p", "t", ">">>

Markdowns == Strs(MarkdownAlphabet, MaxLen) \cup {Str_ScriptEnd, Str_ExampleBody}

InitUnit ==
    /\ PipelineIdle
    /\ phase = "input"
    /\ res = <<>>
    /\ \/ fn = "CleanMarkdown" /\ arg \in Responses /\ svc = NoOutcome
       \/ fn = "SafeFilename" /\ arg \in Topics /\ svc = NoOutcome
       \/ fn = "get_youtube_transcript" /\ arg \in Urls
            /\ svc \in {Raises("TranscriptsDisabled"), Returns(<<Frag(Str_Hello)>>)}
       \/ fn = "get_youtube_transcript" /\ arg = Str_WatchPrefix \o Str_Watch \o Str_Id
            /\ svc \in {Returns(l) : l \in FragLists}
       \/ fn = "json.dumps" /\ arg \in Markdowns /\ svc = NoOutcome
       \/ fn = "create_markmap_html" /\ arg \in Markdowns /\ svc = NoOutcome

ApplyCleanMarkdown ==
    /\ fn = "CleanMarkdown"
    /\ phase = "input"
    /\ res' = CleanMarkdown(arg)
    /\ phase' = "applied"
    /\ UNCHANGED <<fn, arg, svc>>
    /\ UNCHANGED pipelineVars

\* the clean-up applied to its own result; res keeps both results
ReapplyCleanMarkdown ==
    /\ fn = "CleanMarkdown"
    /\ phase = "applied"
    /\ res' = [once |-> res, twice |-> CleanMarkdown(res)]
    /\ phase' = "reapplied"
    /\ UNCHANGED <<fn, arg, svc>>
    /\ UNCHANGED pipelineVars

ApplySafeFilename ==
    /\ fn = "SafeFilename"
    /\ phase = "input"
    /\ res' = SafeFilename(arg)
    /\ phase' = "applied"
    /\ UNCHANGED <<fn, arg, svc>>
    /\ UNCHANGED pipelineVars

ApplyGetTranscript ==
    /\ fn = "get_youtube_transcript"
    /\ phase = "input"
    /\ res' = get_youtube_transcript(arg, svc)
    /\ phase' = "applied"
    /\ UNCHANGED <<fn, arg, svc>>
    /\ UNCHANGED pipelineVars

ApplyJsonDumps ==
    /\ fn = "json.dumps"
    /\ phase = "input"
    /\ res' = JsonDumps(arg)
    /\ phase' = "applied"
    /\ UNCHANGED <<fn, arg, svc>>
    /\ UNCHANGED pipelineVars

ApplyCreateHtml ==
    /\ fn = "create_markmap_html"
    /\ phase = "input"
    /\ res' = create_markmap_html(Str_TestTopic, arg)
    /\ phase' = "applied"
    /\ UNCHANGED <<fn, arg, svc>>
    /\ UNCHANGED pipelineVars

NextUnit ==
    \/ ApplyCleanMarkdown
    \/ ReapplyCleanMarkdown
    \/ ApplySafeFilename
    \/ ApplyGetTranscript
    \/ ApplyJsonDumps
    \/ ApplyCreateHtml

UnitSpec == InitUnit /\ [][NextUnit]_vars

(***************************************************************************)
(* Claims.                                                                 *)
(***************************************************************************)
Fenced(w1, body, w2) ==
    w1 \o FenceOpen \o <<"\n">> \o body \o <<"\n">> \o FenceClose \o w2

\* C1: a response that is a body between the opening fence line and the
\* closing fence, with optional whitespace around, is cleaned to exactly the
\* body stripped of leading and trailing whitespace.
C1_FencedBodyReturned ==
    (fn = "CleanMarkdown" /\ phase = "applied") =>
        \A b \in Bodies, w1 \in Margins, w2 \in Margins :
            arg = Fenced(w1, b, w2) => res = Strip(b)

\* C2: no stage lets an exception escape: every stage call of a run returns
\* to main and no exception leaves main.
C2_EveryStageReturns ==
    /\ uncaught = None
    /\ pc # "crashed"
    /\ \A i \in 1..Len(stages) : ~stages[i].raised

\* C3: the clean-up is idempotent: applied to its own result it returns that
\* result unchanged.
C3_CleanIdempotent ==
    (fn = "CleanMarkdown" /\ phase = "reapplied") => res.twice = res.once

\* C4: the HTML returned by create_markmap_html holds the JSON form of the
\* markdown as the argument of transformer.transform, and the JSON form holds
\* no "</script>".
C4_EscapedMarkdownEmbedded ==
    /\ (fn = "create_markmap_html" /\ phase = "applied") =>
           /\ ~res.raised
           /\ Contains(res.value,
                       <<" = transformer.transform(">> \o JsonDumps(arg) \o <<");\n  const ">>)
    /\ (fn = "json.dumps" /\ phase = "applied") => ~Contains(res, Str_ScriptEnd)

Str_PreambleFileTrailing ==
    <<"p","r","e","a","m","b","l","e","_","p","a","r","t","_","i","_">> \o HtmlExt

Str_PreambleFile ==
    <<"p","r","e","a","m","b","l","e","_","p","a","r","t","_","i">> \o HtmlExt

\* ^[a-z0-9_]+\.html$
MatchesFilenamePattern(f) ==
    /\ Len(f) > Len(HtmlExt)
    /\ EndsWith(f, HtmlExt)
    /\ \A i \in 1..(Len(f) - Len(HtmlExt)) : f[i] \in AsciiLower \cup Digits \cup {"_"}

\* a letter or a digit, of any script
IsAlnum(c) == c \in AsciiLower \cup AsciiUpper \cup Digits \cup NonAsciiLower \cup NonAsciiUpper

IsAscii(s) == \A i \in 1..Len(s) : s[i] \notin NonAscii

\* a maximal run of characters that are not alphanumeric starts at position i
RunStart(s, i) == ~IsAlnum(s[i]) /\ (i = 1 \/ IsAlnum(s[i - 1]))

\* where the character at position i of the topic lands in the file name:
\* one place for each alphanumeric character and each run up to i
Landing(s, i) ==
    Cardinality({j \in 1..i : IsAlnum(s[j])}) + Cardinality({j \in 1..i : RunStart(s, j)})

LowerOf(c) ==
    IF \E k \in 1..26 : UpperLetters[k] = c
    THEN LowerLetters[CHOOSE k \in 1..26 : UpperLetters[k] = c]
    ELSE IF c \in NonAsciiUpper THEN "U+00E9" ELSE c

\* C5 as stated: every non-empty topic maps to a file name matching
\* ^[a-z0-9_]+\.html$, and "Preamble: Part I" maps to preamble_part_i_.html.
C5_Original ==
    (fn = "SafeFilename" /\ phase = "applied" /\ Len(arg) > 0) =>
        /\ MatchesFilenamePattern(res)
        /\ (arg = Str_Preamble => res = Str_PreambleFileTrailing)

\* C5 amended: the file name of a non-empty topic is the topic with each
\* maximal run of characters that are not letters or digits (of any script)
\* replaced by exactly one underscore, lower-cased, followed by ".html"; it
\* matches ^[a-z0-9_]+\.html$ when the topic is ASCII; "Preamble: Part I"
\* maps to preamble_part_i.html.
C5_FilenameSanitized ==
    (fn = "SafeFilename" /\ phase = "applied" /\ Len(arg) > 0) =>
        LET stem == SubSeq(res, 1, Len(res) - Len(HtmlExt)) IN
        /\ EndsWith(res, HtmlExt)
        /\ Len(stem) = Landing(arg, Len(arg))
        /\ Len(stem) > 0
        /\ \A i \in 1..Len(arg) :
              /\ IsAlnum(arg[i]) => stem[Landing(arg, i)] = LowerOf(arg[i])
              /\ RunStart(arg, i) => stem[Landing(arg, i)] = "_"
        /\ IsAscii(arg) => MatchesFilenamePattern(res)
        /\ (arg = Str_Preamble => res = Str_PreambleFile)

\* C5 witness: the topic "Preamble: Part I", with a run of two characters
\* that are not alphanumeric, has been given its file name.
C5_Witness ==
    fn = "SafeFilename" /\ phase = "applied" /\ arg = Str_Preamble /\ res = Str_PreambleFile

\* C6: for a URL <prefix>/watch?v=ID or <prefix>/be/ID that ends with the
\* alphanumeric ID, the transcript service is called with exactly ID.
C6_IdExtracted ==
    (fn = "get_youtube_transcript" /\ phase = "applied") =>
        \A p \in Prefixes, id \in Ids :
            (arg = p \o Str_Watch \o id \/ arg = p \o Str_Be \o id) =>
                res.calls = <<[svc |-> "get_transcript", arg |-> id]>>

MissingInput == ~Truthy(api_key) \/ ~Truthy(video_topic) \/ ~Truthy(youtube_url)

DownloadOffered == \E i \in 1..Len(ui) : ui[i].kind = "download_button"

ErrorsShown == {i \in 1..Len(ui) : ui[i].kind = "error"}

\* C7: a run started with the credential, the topic or the URL empty shows
\* one error message, which tells the three inputs apart, and ends with no
\* stage called, no service invoked and no download offered.
C7_ValidationBeforeCalls ==
    /\ MsgMissingKey # MsgMissingTopic
    /\ MsgMissingKey # MsgMissingUrl
    /\ MsgMissingTopic # MsgMissingUrl
    /\ (pc # "idle" /\ MissingInput) =>
          /\ pc = "done"
          /\ calls = <<>>
          /\ stages = <<>>
          /\ html_content = None
          /\ ~DownloadOffered
          /\ Len(ui) = 1
          /\ ui[1].kind = "error"
          /\ (ui[1].body = MsgMissingKey) = (api_key = <<>>)
          /\ (ui[1].body = MsgMissingTopic) = (api_key # <<>> /\ video_topic = <<>>)
          /\ (ui[1].body = MsgMissingUrl) =
                 (api_key # <<>> /\ video_topic # <<>> /\ youtube_url = <<>>)

\* C7 witness: the button was pressed with only the URL missing and the run
\* ended on the message about the URL.
C7_Witness ==
    /\ pc = "done"
    /\ api_key # <<>>
    /\ video_topic # <<>>
    /\ youtube_url = <<>>
    /\ ui = <<Shown("error", MsgMissingUrl)>>

StageOrder ==
    <<"get_youtube_transcript", "generate_mind_map_markdown", "create_markmap_html">>

CallsOf(service) == {i \in 1..Len(calls) : calls[i].svc = service}

StageSucceeded(i) ==
    /\ i \in 1..Len(stages)
    /\ ~stages[i].raised
    /\ stages[i].error = None
    /\ stages[i].value # None

\* C8: within one run the stages are called in order, each at most once and
\* each service at most once; the generation stage only after the transcript
\* stage returned a transcript and no error; the builder and the download only
\* after the generation stage returned Markdown and no error; a stage that
\* returned an error is the last stage of the run, which has ended with no
\* HTML and no download.
C8_LinearHaltAtFirstFailure ==
    /\ Len(stages) <= Len(StageOrder)
    /\ \A i \in 1..Len(stages) : stages[i].stage = StageOrder[i]
    /\ Cardinality(CallsOf("get_transcript")) <= 1
    /\ Cardinality(CallsOf("generate_content")) <= 1
    /\ \A i \in CallsOf("generate_content") :
          /\ StageSucceeded(1)
          /\ CallsOf("get_transcript") # {}
          /\ \A j \in CallsOf("get_transcript") : j < i
    /\ \A i \in 2..Len(stages) : StageSucceeded(i - 1)
    /\ pc = "step2" => StageSucceeded(1)
    /\ pc = "step3" => StageSucceeded(1) /\ StageSucceeded(2)
    /\ (DownloadOffered \/ html_content # None) => StageSucceeded(2) /\ StageSucceeded(3)
    /\ \A i \in 1..Len(stages) :
          stages[i].error # None =>
              /\ i = Len(stages)
              /\ pc = "done"
              /\ html_content = None
              /\ ~DownloadOffered
              /\ ErrorsShown = {Len(ui)}
              /\ ui[Len(ui)].body = stages[i].error

\* C8 witness: the transcript stage succeeded, the generation stage returned
\* an error, and the run has ended.
C8_Witness ==
    /\ pc = "done"
    /\ Len(stages) = 2
    /\ StageSucceeded(1)
    /\ stages[2].error # None
    /\ Len(calls) = 2

\* some "v=" or "be/" of the URL is followed by a character of an identifier
HasMarkedId(url) ==
    \E i \in 1..Len(url) :
        /\ url[i] # "&"
        /\ url[i] # "#"
        /\ \/ i >= 3 /\ url[i - 2] = "v" /\ url[i - 1] = "="
           \/ i >= 4 /\ url[i - 3] = "b" /\ url[i - 2] = "e" /\ url[i - 1] = "/"

\* C9: for a URL in which no "v=" and no "be/" is followed by an identifier,
\* get_youtube_transcript returns (None, invalid-URL message) and does not
\* call the transcript service.
C9_NoIdNoCall ==
    (fn = "get_youtube_transcript" /\ phase = "applied" /\ ~HasMarkedId(arg)) =>
        /\ res.value = None
        /\ res.error = MsgInvalidUrl
        /\ res.calls = <<>>

\* C9 witness: a URL with "v=" followed by no identifier was rejected.
C9_Witness ==
    /\ fn = "get_youtube_transcript"
    /\ phase = "applied"
    /\ Contains(arg, <<"v", "=">>)
    /\ ~HasMarkedId(arg)
    /\ res.error = MsgInvalidUrl

\* where fragment k starts in the joined text, less one
RECURSIVE Offset(_, _)
Offset(list, k) ==
    IF k <= 1 THEN 0 ELSE Offset(list, k - 1) + Len(list[k - 1].text) + 1

\* C10: when the service returns a list of fragments, get_youtube_transcript
\* returns no error and the texts of the fragments in their order with exactly
\* one space between neighbours; the empty list gives the empty string.
C10_TranscriptJoined ==
    (fn = "get_youtube_transcript" /\ phase = "applied" /\ HasMarkedId(arg) /\ ~svc.raises) =>
        LET list == svc.value
            n == Len(list)
        IN  /\ res.error = None
            /\ res.value # None
            /\ Len(res.value) = IF n = 0 THEN 0 ELSE Offset(list, n) + Len(list[n].text)
            /\ \A k \in 1..n :
                  /\ \A i \in 1..Len(list[k].text) :
                        res.value[Offset(list, k) + i] = list[k].text[i]
                  /\ k < n => res.value[Offset(list, k) + Len(list[k].text) + 1] = " "
            /\ n = 0 => res.value = <<>>

\* C10 witness: a list of three fragments, one of them empty, was joined.
C10_Witness ==
    /\ fn = "get_youtube_transcript"
    /\ phase = "applied"
    /\ ~svc.raises
    /\ Len(svc.value) = 3
    /\ svc.value[2].text = <<>>
    /\ res.error = None
    /\ Len(res.value) > 2

====
